---- MODULE Spec2Model ----
(***************************************************************************)
(* Point-of-sale inventory core of kasir-pintar: the product catalog, the  *)
(* sale handler createTransaction with every awaited storage call as its   *)
(* own step, manual stock adjustment, catalog edits (with their barcode    *)
(* lookups), the soft delete, and the tables they write (products,         *)
(* transactions, transaction_items, stock_movements).                      *)
(* Money is kept in minor units (cents): every price is read back from a   *)
(* numeric(10,2) column, and the inputs below are whole cents.             *)
(***************************************************************************)
EXTENDS Integers, Sequences, FiniteSets, TLC

VARIABLES
    products,           \* productsTable: row i has id i (serial primary key)
    transactions,       \* transactionsTable: row i has id i
    transaction_items,  \* transactionItemsTable
    stock_movements,    \* stockMovementsTable
    calls,              \* the createTransaction requests in flight or finished
    requests,           \* the createProduct/updateProduct/deleteProduct requests
                        \* that read before they write, in flight or finished
    response,           \* what the latest adjustStock call returned or threw
    initial_stock,      \* history: the stock each product was created with
    edits,              \* history: number of updateProduct/adjustStock calls so far
    clock,              \* the instant new Date() returns on the server
    reports,            \* what the getSalesReport calls returned, oldest first
    loaded,             \* TransactionPage: the products state (loadProducts)
    cart,               \* TransactionPage: the cart state
    paymentMethod,      \* TransactionPage: the paymentMethod state
    paymentAmount,      \* TransactionPage: the paymentAmount state
    isLoading,          \* TransactionPage: a createTransaction request is awaited
    transactionData,    \* the createTransaction request the page has sent
    alert               \* the text of the latest alert() of the page, "" if none

vars == <<products, transactions, transaction_items, stock_movements, calls,
          requests, response, initial_stock, edits, clock, reports, loaded, cart,
          paymentMethod, paymentAmount, isLoading, transactionData, alert>>

\* what the report handler reads and returns besides the tables
reporting == <<clock, reports>>

\* the state of the checkout page
checkout == <<loaded, cart, paymentMethod, paymentAmount, isLoading,
              transactionData, alert>>

tables == <<products, transactions, transaction_items, stock_movements>>

----------------------------------------------------------------------------
(* Bounds of the model *)

MaxProducts == 2        \* products that createProduct may insert
MaxStock == 3           \* largest stock_quantity an input may carry
MaxQty == 2             \* largest quantity of an order line
MaxLines == 2           \* longest order
NumCalls == 2           \* createTransaction requests (they may overlap)
MaxEdits == 1           \* updateProduct/adjustStock calls in a behaviour
MaxFaults == 1          \* storage writes that fail in a behaviour
NumRequests == 2        \* catalog requests that read before they write
MaxSeeds == 1           \* transactions stored by other means than createTransaction
MaxSales == 2           \* transaction rows a report may find in the table
MaxReports == 1         \* getSalesReport calls of a behaviour

NULL == "null"

\* a null reference_id (serial ids start at 1)
NoReference == 0

Calls == 1..NumCalls
Requests == 1..NumRequests
ProductNames == {"Kopi", "Teh"}
Prices == {100, 250}
PaymentMethods == {"cash", "transfer", "e_wallet"}
PaymentAmounts == {100, 400}
TransactionStatuses == {"pending", "completed", "cancelled"}
Barcodes == {"", "8991", "8992"}
ValidationErrors == {"EmptyOrder", "ProductNotFound", "ProductInactive", "InsufficientStock"}

Max(a, b) == IF a >= b THEN a ELSE b

\* JavaScript truthiness of a nullable string: null and "" are falsy
Truthy(text) == text # NULL /\ text # ""

RECURSIVE SeqSum(_)
SeqSum(s) == IF s = <<>> THEN 0 ELSE Head(s) + SeqSum(Tail(s))

\* Array.prototype.map
Map(s, f(_)) == [k \in 1..Len(s) |-> f(s[k])]

\* Array.prototype.filter
Filter(s, test(_)) == SelectSeq(s, test)

\* Array.prototype.includes
Includes(s, x) == \E k \in 1..Len(s) : s[k] = x

\* Orders a caller can submit: up to MaxLines lines of {product_id, quantity}
OrderLines == [product_id : 1..MaxProducts, quantity : 1..MaxQty]
Orders == UNION {[1..n -> OrderLines] : n \in 0..MaxLines}

\* createProduct inputs (createProductInputSchema): the shop lists two
\* articles, each at its own price, well stocked or nearly sold out, and an
\* article may be entered inactive
CreateProductInputs ==
    {in \in [name : ProductNames, barcode : {NULL}, price : Prices,
             stock_quantity : {1, MaxStock}, is_active : BOOLEAN] :
        /\ in.name = "Kopi" <=> in.price = 100
        /\ ~in.is_active => in.stock_quantity = MaxStock}

\* createTransaction inputs (createTransactionInputSchema; the handler itself
\* rejects an empty order, so the empty order is among them)
CreateTransactionInputs ==
    [items : Orders, payment_method : PaymentMethods, payment_amount : PaymentAmounts]

\* the orders of the checkout desks that sell at the same time: cash sales
\* of one article
CashSaleInputs ==
    {in \in CreateTransactionInputs :
        in.payment_method = "cash" /\ in.payment_amount = 400 /\ Len(in.items) = 1}

\* the articles on sale at those desks
ActiveProductInputs == {in \in CreateProductInputs : in.is_active}

\* transaction_number = `TRX-${Date.now()}-${random suffix}`: what matters of
\* the value is which other call drew the same one, so call c draws the
\* number of an earlier call or its own
TransactionNumbers(c) == 1..c

----------------------------------------------------------------------------
(* createTransaction: the synchronous part between two awaits *)

NoCall ==
    [pc |-> "idle", items |-> <<>>, requestedProducts |-> <<>>,
     itemDetails |-> <<>>, row |-> <<>>, transaction_id |-> NoReference, i |-> 0,
     error |-> "none", overlap |-> {}]

InFlight(c) ==
    calls[c].pc \in {"insertTransaction", "insertItems", "updateStock", "insertMovements"}

Finished(c) == calls[c].pc \in {"done", "failed"}

\* ValidateStock without the test of is_active
RECURSIVE ValidateStockOfAnyProduct(_, _)
ValidateStockOfAnyProduct(items, requestedProducts) ==
    IF items = <<>> THEN "none"
    ELSE LET item == Head(items)
             hit == Filter(requestedProducts, LAMBDA p : p.id = item.product_id)
         IN  IF hit = <<>> THEN "ProductNotFound"
             ELSE IF Head(hit).stock_quantity < item.quantity THEN "InsufficientStock"
             ELSE ValidateStockOfAnyProduct(Tail(items), requestedProducts)

\* lines 28-39: the first line that fails decides the error (find returns
\* the first row with the line's product id, or undefined)
RECURSIVE ValidateStock(_, _)
ValidateStock(items, requestedProducts) ==
    IF items = <<>> THEN "none"
    ELSE LET item == Head(items)
             hit == Filter(requestedProducts, LAMBDA p : p.id = item.product_id)
         IN  IF hit = <<>> THEN "ProductNotFound"
             ELSE IF ~Head(hit).is_active THEN "ProductInactive"
             ELSE IF Head(hit).stock_quantity < item.quantity THEN "InsufficientStock"
             ELSE ValidateStock(Tail(items), requestedProducts)

\* lines 14-21: the rows of the catalog read whose id the order names
RequestedProducts(items, allProducts) ==
    LET productIds == Map(items, LAMBDA item : item.product_id)
    IN  Filter(allProducts, LAMBDA p : Includes(productIds, p.id))

\* lines 9-39: the error the validation throws, or "none"
Validate(items, allProducts) ==
    IF Len(items) = 0 THEN "EmptyOrder"
    ELSE LET requestedProducts == RequestedProducts(items, allProducts)
         IN  IF Len(requestedProducts) # Len(items) THEN "ProductNotFound"
             ELSE ValidateStock(items, requestedProducts)

\* lines 43-56: one detail per line, priced from the catalog read
ItemDetails(items, requestedProducts) ==
    Map(items, LAMBDA item :
        LET product == Head(Filter(requestedProducts, LAMBDA p : p.id = item.product_id))
        IN  [product_id |-> item.product_id,
             product_name |-> product.name,
             quantity |-> item.quantity,
             unit_price |-> product.price,
             total_price |-> product.price * item.quantity])

\* lines 42, 47
TotalAmount(itemDetails) == SeqSum(Map(itemDetails, LAMBDA d : d.total_price))

\* ChangeAmount without the clamp at 0
ChangeAmountUnclamped(payment_amount, totalAmount) == payment_amount - totalAmount

\* line 58
ChangeAmount(payment_amount, totalAmount) == Max(0, payment_amount - totalAmount)

\* TransactionValues with change computed for cash only, as the checkout
\* form's calculateChange does
TransactionValuesCashChangeOnly(input, itemDetails, transactionNumber) ==
    [transaction_number |-> transactionNumber,
     total_amount |-> TotalAmount(itemDetails),
     payment_method |-> input.payment_method,
     payment_amount |-> input.payment_amount,
     change_amount |-> IF input.payment_method = "cash"
                       THEN ChangeAmount(input.payment_amount, TotalAmount(itemDetails))
                       ELSE 0,
     status |-> "completed"]

\* the row is stored as pending, to be completed later
TransactionValuesPending(input, itemDetails, transactionNumber) ==
    [transaction_number |-> transactionNumber,
     total_amount |-> TotalAmount(itemDetails),
     payment_method |-> input.payment_method,
     payment_amount |-> input.payment_amount,
     change_amount |-> ChangeAmount(input.payment_amount, TotalAmount(itemDetails)),
     status |-> "pending"]

\* lines 63-71: the values of the transaction row
TransactionValues(input, itemDetails, transactionNumber) ==
    [transaction_number |-> transactionNumber,
     total_amount |-> TotalAmount(itemDetails),
     payment_method |-> input.payment_method,
     payment_amount |-> input.payment_amount,
     change_amount |-> ChangeAmount(input.payment_amount, TotalAmount(itemDetails)),
     status |-> "completed"]

\* a catalog request that has not started
NoRequest ==
    [pc |-> "idle", op |-> "none", input |-> <<>>, error |-> "none", result |-> <<>>]

\* no adjustStock call has returned yet
NoResponse ==
    [call |-> 0, input |-> <<>>, error |-> "none", product |-> <<>>]

----------------------------------------------------------------------------
(* Dates.  A Date is a local calendar day and the milliseconds since that  *)
(* day's midnight; the calendar runs from 1 December 2023 (day 0, a       *)
(* Friday) to 31 March 2024, in a zone without clock changes.             *)

MonthLengths == <<31, 31, 29, 31>>      \* Dec 2023, Jan, Feb, Mar 2024

\* the day number of the first day of the k-th month of the calendar
\* (k = 0 is December 2023)
RECURSIVE DaysBefore(_)
DaysBefore(k) == IF k <= 0 THEN 0 ELSE DaysBefore(k - 1) + MonthLengths[k]

\* the month of the calendar a day number falls in
MonthIndex(day) ==
    CHOOSE k \in 0..(Len(MonthLengths) - 1) :
        DaysBefore(k) <= day /\ day < DaysBefore(k + 1)

\* Date.prototype.getFullYear, getMonth (0 = January), getDate, getDay
\* (0 = Sunday)
getFullYear(d) == IF MonthIndex(d.day) = 0 THEN 2023 ELSE 2024
getMonth(d) == IF MonthIndex(d.day) = 0 THEN 11 ELSE MonthIndex(d.day) - 1
getDate(d) == d.day - DaysBefore(MonthIndex(d.day)) + 1
getDay(d) == (d.day + 5) % 7

\* the milliseconds of hours:minutes:seconds.ms after midnight
TimeOfDay(hours, minutes, seconds, ms) ==
    ((hours * 60 + minutes) * 60 + seconds) * 1000 + ms

\* new Date(year, month, date, hours, minutes, seconds, ms): a month past
\* December or a date outside the month carries over, as in JavaScript
NewDate(year, month, date, hours, minutes, seconds, ms) ==
    [day |-> DaysBefore((year - 2023) * 12 + month - 11) + date - 1,
     ms |-> TimeOfDay(hours, minutes, seconds, ms)]

\* Date.prototype.setDate and setHours, as the date they leave behind
setDate(d, date) == [d EXCEPT !.day = d.day - getDate(d) + date]
setHours(d, hours, minutes, seconds, ms) ==
    [d EXCEPT !.ms = TimeOfDay(hours, minutes, seconds, ms)]

\* the order of instants (gte / lte of the query)
Gte(a, b) == a.day > b.day \/ (a.day = b.day /\ a.ms >= b.ms)
Lte(a, b) == Gte(b, a)

\* the instants of the model, in order: Sunday 31 Dec 2023 10:00,
\* Monday 1 Jan 2024 00:00, Monday 29 Jan 00:00, Thursday 1 Feb 10:00,
\* Sunday 4 Feb 23:59:59.999, Thursday 29 Feb 23:59:59.999
Instants ==
    <<NewDate(2023, 11, 31, 10, 0, 0, 0),
      NewDate(2024, 0, 1, 0, 0, 0, 0),
      NewDate(2024, 0, 29, 0, 0, 0, 0),
      NewDate(2024, 1, 1, 10, 0, 0, 0),
      NewDate(2024, 1, 4, 23, 59, 59, 999),
      NewDate(2024, 1, 29, 23, 59, 59, 999)>>

Dates == {Instants[i] : i \in 1..Len(Instants)}

----------------------------------------------------------------------------
(* State after construction: empty tables, no request yet *)

Init ==
    /\ products = <<>>
    /\ transactions = <<>>
    /\ transaction_items = <<>>
    /\ stock_movements = <<>>
    /\ calls = [c \in Calls |-> NoCall]
    /\ requests = [r \in Requests |-> NoRequest]
    /\ response = NoResponse
    /\ initial_stock = <<>>
    /\ edits = 0
    /\ clock = Instants[1]
    /\ reports = <<>>
    /\ loaded = <<>>
    /\ cart = <<>>
    /\ paymentMethod = "cash"
    /\ paymentAmount = 0
    /\ isLoading = FALSE
    /\ transactionData = <<>>
    /\ alert = ""

----------------------------------------------------------------------------
(* Catalog *)

\* lines 22-33: the row the insert stores; the serial id is the row's
\* position in the table
InsertedProduct(input) ==
    [id |-> Len(products) + 1,
     name |-> input.name,
     barcode |-> input.barcode,
     price |-> input.price,
     stock_quantity |-> input.stock_quantity,
     is_active |-> input.is_active]

\* createProduct without a barcode (null or ""): line 9 skips the lookup,
\* the insert is the handler's only storage call
createProduct(input) ==
    /\ ~Truthy(input.barcode)
    /\ Len(products) < MaxProducts
    /\ products' = Append(products, InsertedProduct(input))
    /\ initial_stock' = Append(initial_stock, input.stock_quantity)
    /\ UNCHANGED <<reporting, checkout, transactions, transaction_items, stock_movements, calls,
                   requests, response, edits>>

\* updateProduct inputs: `given` names the fields that are not undefined;
\* an edit changes one field, or none
UpdateProductInputs ==
    {in \in [id : 1..MaxProducts,
             given : {{}, {"name"}, {"price"}, {"stock_quantity"}, {"is_active"}},
             name : ProductNames, barcode : {NULL}, price : Prices,
             stock_quantity : 0..MaxStock, is_active : BOOLEAN] :
        /\ "name" \notin in.given => in.name = "Kopi"
        /\ "price" \notin in.given => in.price = 100
        /\ "stock_quantity" \notin in.given => in.stock_quantity = 0
        /\ "is_active" \notin in.given => in.is_active = TRUE}

\* lines 36-54: the row after the update, the given fields set
UpdatedProduct(product, input) ==
    [id |-> product.id,
     name |-> IF "name" \in input.given THEN input.name ELSE product.name,
     barcode |-> IF "barcode" \in input.given THEN input.barcode
                 ELSE product.barcode,
     price |-> IF "price" \in input.given THEN input.price ELSE product.price,
     stock_quantity |-> IF "stock_quantity" \in input.given
                        THEN input.stock_quantity ELSE product.stock_quantity,
     is_active |-> IF "is_active" \in input.given
                   THEN input.is_active ELSE product.is_active]

\* updateProduct that carries the new name and price into the line items
\* already sold
updateProductRewritesItems(input) ==
    /\ ~("barcode" \in input.given /\ input.barcode # NULL)
    /\ edits < MaxEdits
    /\ edits' = edits + 1
    /\ IF input.id \notin 1..Len(products)
       THEN UNCHANGED <<products, transaction_items>>
       ELSE /\ products' = [products EXCEPT ![input.id] = UpdatedProduct(@, input)]
            /\ transaction_items' = Map(transaction_items, LAMBDA item :
                   IF item.product_id = input.id
                   THEN [item EXCEPT !.product_name = products'[input.id].name,
                                     !.unit_price = products'[input.id].price]
                   ELSE item)
    /\ UNCHANGED <<reporting, checkout, transactions, stock_movements, calls,
                   requests, response, initial_stock>>

\* updateProduct that sets no barcode (line 19 skips the lookup): a missing
\* id throws; otherwise the given fields are set. A product once stored is
\* never removed, so the lookup of line 9 and the update of line 50 see the
\* same row set
updateProduct(input) ==
    /\ ~("barcode" \in input.given /\ input.barcode # NULL)
    /\ edits < MaxEdits
    /\ edits' = edits + 1
    /\ IF input.id \notin 1..Len(products)
       THEN UNCHANGED products
       ELSE products' = [products EXCEPT ![input.id] = UpdatedProduct(@, input)]
    /\ UNCHANGED <<reporting, checkout, transactions, transaction_items, stock_movements, calls,
                   requests, response, initial_stock>>

\* adjustStock inputs (stockAdjustmentInputSchema)
StockAdjustmentInputs ==
    [product_id : 1..MaxProducts, adjustment_quantity : (0 - MaxStock)..MaxStock,
     notes : {NULL, "recount"}]

\* the edits made while several desks sell: stock corrections
StockUpdateInputs == {in \in UpdateProductInputs : in.given = {"stock_quantity"}}
StockCountInputs == {in \in StockAdjustmentInputs : in.notes = NULL}

\* AdjustmentError without the check of the resulting stock
AdjustmentErrorMissingOnly(input) ==
    IF input.product_id \notin 1..Len(products) THEN "NotFound" ELSE "none"

\* the error adjustStock throws for the input, or "none": the product is
\* missing, or the stock would become negative
AdjustmentError(input) ==
    IF input.product_id \notin 1..Len(products) THEN "NotFound"
    ELSE IF products[input.product_id].stock_quantity + input.adjustment_quantity < 0
         THEN "NegativeStock"
         ELSE "none"

\* AdjustedProduct that also puts the product on sale again
AdjustedProductReactivated(product, input) ==
    [product EXCEPT !.stock_quantity = @ + input.adjustment_quantity,
                    !.is_active = TRUE]

\* the product row after the adjustment: new stock = current stock + the
\* signed quantity
AdjustedProduct(product, input) ==
    [product EXCEPT !.stock_quantity = @ + input.adjustment_quantity]

\* AdjustmentMovements that logs nothing for a zero adjustment
AdjustmentMovementsSkipZero(input) ==
    IF input.adjustment_quantity = 0 THEN <<>>
    ELSE <<[product_id |-> input.product_id,
            movement_type |-> "adjustment",
            quantity |-> input.adjustment_quantity,
            reference_type |-> "adjustment",
            reference_id |-> NoReference,
            notes |-> [text |-> input.notes, number |-> NoReference]]>>

\* the ledger entry of an adjustment
AdjustmentMovements(input) ==
    <<[product_id |-> input.product_id,
       movement_type |-> "adjustment",
       quantity |-> input.adjustment_quantity,
       reference_type |-> "adjustment",
       reference_id |-> NoReference,
       notes |-> [text |-> input.notes, number |-> NoReference]]>>

\* adjustStock that answers every call with a sample product and stores
\* nothing
adjustStockSampleProduct(input) ==
    /\ edits < MaxEdits
    /\ edits' = edits + 1
    /\ response' = [call |-> edits + 1, input |-> <<input>>, error |-> "none",
                    product |-> <<[id |-> input.product_id, name |-> "Kopi",
                                   barcode |-> NULL, price |-> 0,
                                   stock_quantity |-> 0, is_active |-> TRUE]>>]
    /\ UNCHANGED <<reporting, checkout, tables, calls, requests, initial_stock>>

\* adjustStock: a missing product or a negative result throws and writes
\* nothing; otherwise the stock is set, one movement row is appended and
\* the updated product is returned
adjustStock(input) ==
    /\ edits < MaxEdits
    /\ edits' = edits + 1
    /\ IF AdjustmentError(input) # "none"
       THEN /\ response' = [call |-> edits + 1, input |-> <<input>>,
                            error |-> AdjustmentError(input), product |-> <<>>]
            /\ UNCHANGED <<products, stock_movements>>
       ELSE /\ products' = [products EXCEPT ![input.product_id] =
                               AdjustedProduct(@, input)]
            /\ stock_movements' = stock_movements \o AdjustmentMovements(input)
            /\ response' = [call |-> edits + 1, input |-> <<input>>,
                            error |-> "none",
                            product |-> <<products'[input.product_id]>>]
    /\ UNCHANGED <<reporting, checkout, transactions, transaction_items, calls, requests, initial_stock>>

----------------------------------------------------------------------------
(* Catalog requests that read before they write: createProduct and         *)
(* updateProduct with a barcode, deleteProduct                             *)

\* the products the back office enters: one article, with or without a
\* barcode
CatalogProductInputs ==
    [name : {"Kopi"}, barcode : {NULL} \cup Barcodes, price : {100},
     stock_quantity : {MaxStock}, is_active : {TRUE}]

\* the edits the back office makes: a new name, a new price, a barcode set
\* or cleared
CatalogUpdateInputs ==
    {in \in [id : 1..MaxProducts,
             given : {{"name"}, {"price"}, {"barcode"}},
             name : ProductNames, barcode : {NULL} \cup Barcodes, price : Prices,
             stock_quantity : {0}, is_active : {TRUE}] :
        /\ "name" \notin in.given => in.name = "Kopi"
        /\ "price" \notin in.given => in.price = 100
        /\ "barcode" \notin in.given => in.barcode = NULL}

\* request r may start: it is unused, and the requests are used in order
MayStart(r) ==
    /\ requests[r].pc = "idle"
    /\ \A d \in Requests : d < r => requests[d].pc # "idle"

\* createProduct with a barcode, lines 9-19: look the barcode up, throw if
\* a product has it
createProductBegin(r, input) ==
    /\ MayStart(r)
    /\ Truthy(input.barcode)
    /\ LET existingProduct == Filter(products, LAMBDA p : p.barcode = input.barcode)
       IN  requests' = [requests EXCEPT ![r] =
               IF Len(existingProduct) > 0
               THEN [NoRequest EXCEPT !.pc = "failed", !.op = "createProduct",
                                      !.input = <<input>>,
                                      !.error = "DuplicateBarcode"]
               ELSE [NoRequest EXCEPT !.pc = "insertProduct", !.op = "createProduct",
                                      !.input = <<input>>]]
    /\ UNCHANGED <<reporting, checkout, tables, calls, response, initial_stock, edits>>

\* createProduct with a barcode, lines 22-40: insert the row and return it
insertProduct(r) ==
    /\ requests[r].pc = "insertProduct"
    /\ Len(products) < MaxProducts
    /\ LET input == requests[r].input[1]
       IN  /\ products' = Append(products, InsertedProduct(input))
           /\ initial_stock' = Append(initial_stock, input.stock_quantity)
           /\ requests' = [requests EXCEPT ![r].pc = "done",
                                           ![r].result = <<InsertedProduct(input)>>]
    /\ UNCHANGED <<reporting, checkout, transactions, transaction_items, stock_movements, calls,
                   response, edits>>

\* updateProduct that sets a barcode, lines 9-33: a missing id throws, and
\* so does a barcode that another product has
updateProductBegin(r, input) ==
    /\ MayStart(r)
    /\ "barcode" \in input.given /\ input.barcode # NULL
    /\ LET existingProduct == Filter(products, LAMBDA p : p.id = input.id)
           barcodeExists == Filter(products, LAMBDA p :
                                p.barcode = input.barcode /\ p.id # input.id)
       IN  requests' = [requests EXCEPT ![r] =
               IF Len(existingProduct) = 0
               THEN [NoRequest EXCEPT !.pc = "failed", !.op = "updateProduct",
                                      !.input = <<input>>, !.error = "NotFound"]
               ELSE IF Len(barcodeExists) > 0
               THEN [NoRequest EXCEPT !.pc = "failed", !.op = "updateProduct",
                                      !.input = <<input>>,
                                      !.error = "DuplicateBarcode"]
               ELSE [NoRequest EXCEPT !.pc = "updateProduct", !.op = "updateProduct",
                                      !.input = <<input>>]]
    /\ UNCHANGED <<reporting, checkout, tables, calls, response, initial_stock, edits>>

\* updateProduct that sets a barcode, lines 36-61: write the given fields
updateProductSet(r) ==
    /\ requests[r].pc = "updateProduct"
    /\ LET input == requests[r].input[1]
       IN  /\ products' = [products EXCEPT ![input.id] = UpdatedProduct(@, input)]
           /\ requests' = [requests EXCEPT ![r].pc = "done",
                                           ![r].result = <<products'[input.id]>>]
    /\ UNCHANGED <<reporting, checkout, transactions, transaction_items, stock_movements, calls,
                   response, initial_stock, edits>>

\* PendingTransactionItems without the test of the status: any sale of the
\* product counts
AnyTransactionItems(id) ==
    Filter(transaction_items, LAMBDA item : item.product_id = id)

\* deleteProduct, lines 17-27: the line items of product id whose
\* transaction is pending
PendingTransactionItems(id) ==
    Filter(transaction_items, LAMBDA item :
        item.product_id = id /\ transactions[item.transaction_id].status = "pending")

\* deleteProduct, lines 8-31: a missing id throws, and so does a reference
\* from a pending transaction. A product once stored is never removed, so
\* the lookup of line 8 and the one of line 18 agree on the product
deleteProductBegin(r, id) ==
    /\ MayStart(r)
    /\ LET existingProduct == Filter(products, LAMBDA p : p.id = id)
       IN  requests' = [requests EXCEPT ![r] =
               IF Len(existingProduct) = 0
               THEN [NoRequest EXCEPT !.pc = "failed", !.op = "deleteProduct",
                                      !.input = <<id>>, !.error = "NotFound"]
               ELSE IF Len(PendingTransactionItems(id)) > 0
               THEN [NoRequest EXCEPT !.pc = "failed", !.op = "deleteProduct",
                                      !.input = <<id>>,
                                      !.error = "ReferencedByPending"]
               ELSE [NoRequest EXCEPT !.pc = "deleteProduct", !.op = "deleteProduct",
                                      !.input = <<id>>]]
    /\ UNCHANGED <<reporting, checkout, tables, calls, response, initial_stock, edits>>

\* deleteProductSet that removes the row
deleteProductSetHard(r) ==
    /\ requests[r].pc = "deleteProduct"
    /\ LET id == requests[r].input[1]
       IN  /\ products' = Filter(products, LAMBDA p : p.id # id)
           /\ requests' = [requests EXCEPT ![r].pc = "done", ![r].result = <<TRUE>>]
    /\ UNCHANGED <<reporting, checkout, transactions, transaction_items, stock_movements, calls,
                   response, initial_stock, edits>>

\* deleteProductSet that also clears the ledger of the product
deleteProductSetCascade(r) ==
    /\ requests[r].pc = "deleteProduct"
    /\ LET id == requests[r].input[1]
       IN  /\ products' = [products EXCEPT ![id].is_active = FALSE]
           /\ stock_movements' = Filter(stock_movements, LAMBDA m : m.product_id # id)
           /\ requests' = [requests EXCEPT ![r].pc = "done", ![r].result = <<TRUE>>]
    /\ UNCHANGED <<reporting, checkout, transactions, transaction_items, calls,
                   response, initial_stock, edits>>

\* deleteProduct, lines 33-43: the soft delete; returns whether a row was
\* updated
deleteProductSet(r) ==
    /\ requests[r].pc = "deleteProduct"
    /\ LET id == requests[r].input[1]
       IN  /\ products' = [products EXCEPT ![id].is_active = FALSE]
           /\ requests' = [requests EXCEPT ![r].pc = "done", ![r].result = <<TRUE>>]
    /\ UNCHANGED <<reporting, checkout, transactions, transaction_items, stock_movements, calls,
                   response, initial_stock, edits>>

\* transaction t was stored by other means than createTransaction
Seeded(t) == transactions[t].transaction_number > NumCalls

\* a transaction of any status with one line for an existing product,
\* written straight into the tables (no handler stores a pending or a
\* cancelled transaction; imports and fixtures do)
seedTransaction(status, product_id) ==
    /\ product_id \in 1..Len(products)
    /\ Cardinality({t \in 1..Len(transactions) : Seeded(t)}) < MaxSeeds
    /\ transactions' = Append(transactions,
           [transaction_number |-> NumCalls + Len(transactions) + 1,
            total_amount |-> products[product_id].price,
            payment_method |-> "cash",
            payment_amount |-> products[product_id].price,
            change_amount |-> 0,
            status |-> status])
    /\ transaction_items' = Append(transaction_items,
           [transaction_id |-> Len(transactions) + 1,
            product_id |-> product_id,
            product_name |-> products[product_id].name,
            quantity |-> 1,
            unit_price |-> products[product_id].price,
            total_price |-> products[product_id].price])
    /\ UNCHANGED <<reporting, checkout, products, stock_movements, calls, requests, response,
                   initial_stock, edits>>

\* getStockMovements: a query; it reads stock_movements and writes nothing
getStockMovements(productId) ==
    /\ stock_movements # <<>>
    /\ UNCHANGED vars

----------------------------------------------------------------------------
(* createTransaction, one step per awaited storage call *)

\* createTransactionBegin with the stock check made only after the
\* transaction row is written: a refused order leaves its row behind
createTransactionBeginInsertFirst(c, input, transactionNumber) ==
    /\ calls[c].pc = "idle"
    /\ \A d \in Calls : d < c => calls[d].pc # "idle"
    /\ LET allProducts == products
           error == Validate(input.items, allProducts)
           requestedProducts == RequestedProducts(input.items, allProducts)
           overlap == {d \in Calls : InFlight(d)}
       IN  IF error # "none"
           THEN /\ calls' = [calls EXCEPT ![c] =
                       [NoCall EXCEPT !.pc = "failed", !.error = error,
                                      !.items = input.items,
                                      !.requestedProducts = requestedProducts,
                                      !.overlap = overlap]]
                /\ transactions' =
                       IF error = "InsufficientStock"
                       THEN Append(transactions,
                                TransactionValues(input,
                                    ItemDetails(input.items, requestedProducts),
                                    transactionNumber))
                       ELSE transactions
           ELSE /\ calls' = [calls EXCEPT ![c] =
                       [NoCall EXCEPT !.pc = "insertTransaction",
                                      !.items = input.items,
                                      !.requestedProducts = requestedProducts,
                                      !.itemDetails = ItemDetails(input.items, requestedProducts),
                                      !.row = <<TransactionValues(input,
                                                  ItemDetails(input.items, requestedProducts),
                                                  transactionNumber)>>,
                                      !.overlap = overlap]]
                /\ UNCHANGED transactions
    /\ UNCHANGED <<reporting, checkout, products, transaction_items, stock_movements, requests, response,
                   initial_stock, edits>>

\* createTransactionBegin that also refuses a payment below the total
createTransactionBeginChecksPayment(c, input, transactionNumber) ==
    /\ calls[c].pc = "idle"
    /\ \A d \in Calls : d < c => calls[d].pc # "idle"
    /\ LET allProducts == products
           requestedProducts == RequestedProducts(input.items, allProducts)
           overlap == {d \in Calls : InFlight(d)}
           error == IF Validate(input.items, allProducts) # "none"
                    THEN Validate(input.items, allProducts)
                    ELSE IF input.payment_amount <
                            TotalAmount(ItemDetails(input.items, requestedProducts))
                    THEN "InsufficientPayment"
                    ELSE "none"
       IN  IF error # "none"
           THEN calls' = [calls EXCEPT ![c] =
                   [NoCall EXCEPT !.pc = "failed", !.error = error,
                                  !.items = input.items,
                                  !.requestedProducts = requestedProducts,
                                  !.overlap = overlap]]
           ELSE calls' = [calls EXCEPT ![c] =
                   [NoCall EXCEPT !.pc = "insertTransaction",
                                  !.items = input.items,
                                  !.requestedProducts = requestedProducts,
                                  !.itemDetails = ItemDetails(input.items, requestedProducts),
                                  !.row = <<TransactionValues(input,
                                              ItemDetails(input.items, requestedProducts),
                                              transactionNumber)>>,
                                  !.overlap = overlap]]
    /\ UNCHANGED <<reporting, checkout, tables, requests, response,
                   initial_stock, edits>>

\* lines 9-59: read the whole catalog, validate, price the lines, draw the
\* transaction number
createTransactionBegin(c, input, transactionNumber) ==
    /\ calls[c].pc = "idle"
    /\ \A d \in Calls : d < c => calls[d].pc # "idle"
    /\ LET allProducts == products
           error == Validate(input.items, allProducts)
           requestedProducts == RequestedProducts(input.items, allProducts)
           overlap == {d \in Calls : InFlight(d)}
       IN  IF error # "none"
           THEN calls' = [calls EXCEPT ![c] =
                   [NoCall EXCEPT !.pc = "failed", !.error = error,
                                  !.items = input.items,
                                  !.requestedProducts = requestedProducts,
                                  !.overlap = overlap]]
           ELSE calls' = [calls EXCEPT ![c] =
                   [NoCall EXCEPT !.pc = "insertTransaction",
                                  !.items = input.items,
                                  !.requestedProducts = requestedProducts,
                                  !.itemDetails = ItemDetails(input.items, requestedProducts),
                                  !.row = <<TransactionValues(input,
                                              ItemDetails(input.items, requestedProducts),
                                              transactionNumber)>>,
                                  !.overlap = overlap]]
    /\ UNCHANGED <<reporting, checkout, tables, requests, response,
                   initial_stock, edits>>

\* insertTransaction into a table without the unique constraint
insertTransactionUnconstrained(c) ==
    /\ calls[c].pc = "insertTransaction"
    /\ transactions' = Append(transactions, calls[c].row[1])
    /\ calls' = [calls EXCEPT ![c].pc = "insertItems",
                              ![c].transaction_id = Len(transactions) + 1,
                              ![c].row = <<>>]
    /\ UNCHANGED <<reporting, checkout, products, transaction_items, stock_movements, requests, response,
                   initial_stock, edits>>

\* lines 62-75: insert the transaction row; transaction_number is unique in
\* the table, so a number already there makes the insert throw
insertTransaction(c) ==
    /\ calls[c].pc = "insertTransaction"
    /\ LET values == calls[c].row[1]
       IN  IF \E t \in 1..Len(transactions) :
                 transactions[t].transaction_number = values.transaction_number
           THEN /\ calls' = [calls EXCEPT ![c].pc = "failed",
                                          ![c].error = "UniqueViolation",
                                          ![c].itemDetails = <<>>, ![c].row = <<>>]
                /\ UNCHANGED transactions
           ELSE /\ transactions' = Append(transactions, values)
                /\ calls' = [calls EXCEPT ![c].pc = "insertItems",
                                          ![c].transaction_id = Len(transactions) + 1,
                                          ![c].row = <<>>]
    /\ UNCHANGED <<reporting, checkout, products, transaction_items, stock_movements, requests, response,
                   initial_stock, edits>>

\* lines 78-90: insert every line item in one statement
insertTransactionItems(c) ==
    /\ calls[c].pc = "insertItems"
    /\ transaction_items' = transaction_items \o
           Map(calls[c].itemDetails, LAMBDA item :
               [transaction_id |-> calls[c].transaction_id,
                product_id |-> item.product_id,
                product_name |-> item.product_name,
                quantity |-> item.quantity,
                unit_price |-> item.unit_price,
                total_price |-> item.total_price])
    /\ calls' = [calls EXCEPT ![c].pc = "updateStock", ![c].i = 1,
                              ![c].itemDetails = <<>>]
    /\ UNCHANGED <<reporting, checkout, products, transactions, stock_movements, requests, response,
                   initial_stock, edits>>

\* lines 95: the stock written for a line, from the catalog read of line 17
NewStock(product, item) == product.stock_quantity - item.quantity

\* lines 93-104: one UPDATE per line, in order
updateProductStock(c) ==
    /\ calls[c].pc = "updateStock"
    /\ LET item == calls[c].items[calls[c].i]
           product == Head(Filter(calls[c].requestedProducts,
                                  LAMBDA p : p.id = item.product_id))
       IN  products' = [products EXCEPT ![item.product_id].stock_quantity =
                           NewStock(product, item)]
    /\ calls' = [calls EXCEPT
           ![c].i = @ + 1,
           ![c].pc = IF calls[c].i = Len(calls[c].items)
                     THEN "insertMovements" ELSE "updateStock"]
    /\ UNCHANGED <<reporting, checkout, transactions, transaction_items, stock_movements, requests, response,
                   initial_stock, edits>>

\* lines 107-118: insert one movement row per line in one statement, then
\* lines 121-142: return
insertStockMovements(c) ==
    /\ calls[c].pc = "insertMovements"
    /\ stock_movements' = stock_movements \o
           Map(calls[c].items, LAMBDA item :
               [product_id |-> item.product_id,
                movement_type |-> "out",
                quantity |-> 0 - item.quantity,
                reference_type |-> "transaction",
                reference_id |-> calls[c].transaction_id,
                notes |-> [text |-> "Sale - Transaction",
                           number |-> transactions[calls[c].transaction_id]
                                          .transaction_number]])
    /\ calls' = [calls EXCEPT ![c].pc = "done"]
    /\ UNCHANGED <<reporting, checkout, products, transactions, transaction_items, requests, response,
                   initial_stock, edits>>

\* lines 143-146: an awaited storage call rejects (connection lost, request
\* cancelled); the catch block logs and rethrows, nothing is undone
storageFault(c) ==
    /\ InFlight(c)
    /\ Cardinality({d \in Calls : calls[d].error = "StorageError"}) < MaxFaults
    /\ calls' = [calls EXCEPT ![c].pc = "failed", ![c].error = "StorageError",
                              ![c].itemDetails = <<>>, ![c].row = <<>>]
    /\ UNCHANGED <<reporting, checkout, tables, requests, response,
                   initial_stock, edits>>

----------------------------------------------------------------------------

\* every request handler of the router may run at any time; the sales of
\* several desks overlap
Next ==
    \/ \E input \in ActiveProductInputs : createProduct(input)
    \/ \E input \in StockUpdateInputs : updateProduct(input)
    \/ \E input \in StockCountInputs : adjustStock(input)
    \/ \E c \in Calls, input \in CashSaleInputs :
           \E n \in TransactionNumbers(c) : createTransactionBegin(c, input, n)
    \/ \E c \in Calls : insertTransaction(c)
    \/ \E c \in Calls : insertTransactionItems(c)
    \/ \E c \in Calls : updateProductStock(c)
    \/ \E c \in Calls : insertStockMovements(c)

Spec == Init /\ [][Next]_vars

\* one sale with any input, while the catalog is edited and storage calls
\* may fail
NextOrder ==
    \/ \E input \in CreateProductInputs : createProduct(input)
    \/ \E input \in UpdateProductInputs : updateProduct(input)
    \/ \E input \in StockAdjustmentInputs : adjustStock(input)
    \/ \E input \in CreateTransactionInputs : createTransactionBegin(1, input, 1)
    \/ insertTransaction(1)
    \/ insertTransactionItems(1)
    \/ updateProductStock(1)
    \/ insertStockMovements(1)
    \/ storageFault(1)

SpecOrder == Init /\ [][NextOrder]_vars

\* the back office edits the catalog; transactions of any status are on
\* file
NextCatalog ==
    \/ \E input \in CatalogProductInputs : createProduct(input)
    \/ \E r \in Requests, input \in CatalogProductInputs : createProductBegin(r, input)
    \/ \E r \in Requests : insertProduct(r)
    \/ \E input \in CatalogUpdateInputs : updateProduct(input)
    \/ \E r \in Requests, input \in CatalogUpdateInputs : updateProductBegin(r, input)
    \/ \E r \in Requests : updateProductSet(r)
    \/ \E r \in Requests, id \in 1..MaxProducts : deleteProductBegin(r, id)
    \/ \E r \in Requests : deleteProductSet(r)
    \/ \E status \in TransactionStatuses, product_id \in 1..MaxProducts :
           seedTransaction(status, product_id)

SpecCatalog == Init /\ [][NextCatalog]_vars

\* one desk sells while the back office renames, reprices, recounts and
\* delists articles and looks at the ledger
NextLedger ==
    \/ \E input \in ActiveProductInputs : createProduct(input)
    \/ \E input \in CatalogUpdateInputs : updateProduct(input)
    \/ \E r \in Requests, id \in 1..MaxProducts : deleteProductBegin(r, id)
    \/ \E r \in Requests : deleteProductSet(r)
    \/ \E input \in StockCountInputs : adjustStock(input)
    \/ \E input \in CashSaleInputs : createTransactionBegin(1, input, 1)
    \/ insertTransaction(1)
    \/ insertTransactionItems(1)
    \/ updateProductStock(1)
    \/ insertStockMovements(1)
    \/ \E productId \in 1..MaxProducts : getStockMovements(productId)

SpecLedger == Init /\ [][NextLedger]_vars

\* cash orders of any shape
CashOrderInputs ==
    {in \in CreateTransactionInputs :
        in.payment_method = "cash" /\ in.payment_amount = 400}

\* an article is taken off sale or put back on sale
ActivationInputs == {in \in UpdateProductInputs : in.given = {"is_active"}}

\* one desk sells while articles are delisted and relisted
NextDelisting ==
    \/ \E input \in CreateProductInputs : createProduct(input)
    \/ \E input \in ActivationInputs : updateProduct(input)
    \/ \E r \in Requests, id \in 1..MaxProducts : deleteProductBegin(r, id)
    \/ \E r \in Requests : deleteProductSet(r)
    \/ \E input \in CashOrderInputs : createTransactionBegin(1, input, 1)
    \/ insertTransaction(1)
    \/ insertTransactionItems(1)
    \/ updateProductStock(1)
    \/ insertStockMovements(1)

SpecDelisting == Init /\ [][NextDelisting]_vars

----------------------------------------------------------------------------
(* Sales report: calculateDateRange and getSalesReport *)

Periods == {"daily", "weekly", "monthly"}

\* SalesReportInput: start_date and end_date are optional fields
SalesReportInputs ==
    [period : Periods]
    \cup [period : Periods, start_date : Dates]
    \cup [period : Periods, end_date : Dates]
    \cup [period : Periods, start_date : Dates, end_date : Dates]

\* whether an optional field of an input is present
Given(input, field) == field \in DOMAIN input

\* the week is taken to start on the day itself being Sunday
daysToMondaySundayFirst(dayOfWeek) == dayOfWeek

\* lines 135 and 168: how many days back the Monday of the week lies
daysToMonday(dayOfWeek) == IF dayOfWeek = 0 THEN 6 ELSE dayOfWeek - 1

\* lines 126 and 164: new Date(y, m, d), the first instant of d's day
StartOfDay(d) == NewDate(getFullYear(d), getMonth(d), getDate(d), 0, 0, 0, 0)

\* lines 128 and 165: new Date(y, m, d, 23, 59, 59, 999)
EndOfDay(d) == NewDate(getFullYear(d), getMonth(d), getDate(d), 23, 59, 59, 999)

\* lines 136-138 and 170-172: the Monday of d's week at 00:00:00.000
StartOfWeek(d) ==
    setHours(setDate(d, getDate(d) - daysToMonday(getDay(d))), 0, 0, 0, 0)

\* lines 145 and 185: new Date(y, m, 1)
StartOfMonth(d) == NewDate(getFullYear(d), getMonth(d), 1, 0, 0, 0, 0)

\* lines 119-155: only end_date is given
EndDateOnlyRange(period, inputEndDate) ==
    CASE period = "daily" ->
            [startDate |-> StartOfDay(inputEndDate),
             endDate |-> EndOfDay(inputEndDate)]
      [] period = "weekly" ->
            [startDate |-> StartOfWeek(inputEndDate), endDate |-> inputEndDate]
      [] period = "monthly" ->
            [startDate |-> StartOfMonth(inputEndDate), endDate |-> inputEndDate]

\* the automatic week stops at the current instant
CurrentPeriodRangeOpenWeek(period, now) ==
    CASE period = "daily" ->
            [startDate |-> StartOfDay(now), endDate |-> EndOfDay(now)]
      [] period = "weekly" ->
            [startDate |-> StartOfWeek(now), endDate |-> now]
      [] period = "monthly" ->
            [startDate |-> StartOfMonth(now),
             endDate |-> NewDate(getFullYear(now), getMonth(now) + 1, 0,
                                 23, 59, 59, 999)]

\* lines 157-191: neither date is given
CurrentPeriodRange(period, now) ==
    CASE period = "daily" ->
            [startDate |-> StartOfDay(now), endDate |-> EndOfDay(now)]
      [] period = "weekly" ->
            [startDate |-> StartOfWeek(now),
             endDate |-> setHours(setDate(StartOfWeek(now),
                                          getDate(StartOfWeek(now)) + 6),
                                  23, 59, 59, 999)]
      [] period = "monthly" ->
            [startDate |-> StartOfMonth(now),
             endDate |-> NewDate(getFullYear(now), getMonth(now) + 1, 0,
                                 23, 59, 59, 999)]

\* custom dates are widened to whole days
calculateDateRangeWholeDays(input, now) ==
    IF Given(input, "start_date") /\ Given(input, "end_date")
    THEN [startDate |-> StartOfDay(input.start_date),
          endDate |-> EndOfDay(input.end_date)]
    ELSE IF Given(input, "start_date")
    THEN [startDate |-> input.start_date, endDate |-> now]
    ELSE IF Given(input, "end_date")
    THEN EndDateOnlyRange(input.period, input.end_date)
    ELSE CurrentPeriodRange(input.period, now)

\* lines 101-194; now is what new Date() returns during the call
calculateDateRange(input, now) ==
    IF Given(input, "start_date") /\ Given(input, "end_date")
    THEN [startDate |-> input.start_date, endDate |-> input.end_date]
    ELSE IF Given(input, "start_date")
    THEN [startDate |-> input.start_date, endDate |-> now]
    ELSE IF Given(input, "end_date")
    THEN EndDateOnlyRange(input.period, input.end_date)
    ELSE CurrentPeriodRange(input.period, now)

\* the rows of every status in the window
ReportedTransactionsAnyStatus(startDate, endDate) ==
    SelectSeq(transactions,
              LAMBDA row : /\ Gte(row.created_at, startDate)
                           /\ Lte(row.created_at, endDate))

\* line 69: orderBy(desc(created_at)); rows of one instant keep the order
\* of the table
RECURSIVE OrderByCreatedAtDesc(_)
OrderByCreatedAtDesc(rows) ==
    IF rows = <<>> THEN <<>>
    ELSE LET first == CHOOSE i \in 1..Len(rows) :
                          /\ \A j \in 1..Len(rows) :
                                Gte(rows[i].created_at, rows[j].created_at)
                          /\ \A j \in 1..(i - 1) :
                                rows[j].created_at # rows[i].created_at
         IN  <<rows[first]>> \o
             OrderByCreatedAtDesc(SubSeq(rows, 1, first - 1) \o
                                  SubSeq(rows, first + 1, Len(rows)))

\* lines 58-71: the rows the query returns
ReportedTransactions(startDate, endDate) ==
    OrderByCreatedAtDesc(
        SelectSeq(transactions,
                  LAMBDA row : /\ row.status = "completed"
                               /\ Gte(row.created_at, startDate)
                               /\ Lte(row.created_at, endDate)))

RECURSIVE Gcd(_, _)
Gcd(a, b) == IF b = 0 THEN a ELSE Gcd(b, a % b)

\* a / b as a fraction in lowest terms (b > 0)
Divide(a, b) == [numerator |-> a \div Gcd(a, b), denominator |-> b \div Gcd(a, b)]

\* lines 78-93: the summary of the reported rows
SalesReport(input, range, rows) ==
    LET totalSales == SeqSum([i \in 1..Len(rows) |-> rows[i].total_amount])
        totalTransactions == Len(rows)
    IN  [period |-> input.period,
         start_date |-> range.startDate,
         end_date |-> range.endDate,
         total_sales |-> totalSales,
         total_transactions |-> totalTransactions,
         average_transaction |->
             IF totalTransactions > 0
             THEN Divide(totalSales, totalTransactions)
             ELSE Divide(0, 1),
         transactions |-> rows]

\* the whole handler: one query, no write; the reply is kept with the
\* input, the instant of the call and the number of rows stored by then
getSalesReport(input) ==
    /\ Len(reports) < MaxReports
    /\ LET range == calculateDateRange(input, clock)
       IN  reports' = Append(reports,
               [input |-> input,
                now |-> clock,
                stored |-> Len(transactions),
                report |-> SalesReport(input, range,
                               ReportedTransactions(range.startDate, range.endDate))])
    /\ UNCHANGED <<tables, calls, requests, response, initial_stock, edits,
                   clock, checkout>>

\* a transaction row of any status and age, written straight into the table
\* (behaviours are followed up to their last report)
createTestTransaction(totalAmount, createdAt, status) ==
    /\ Len(transactions) < MaxSales
    /\ Len(reports) < MaxReports
    /\ transactions' = Append(transactions,
           [transaction_number |-> NumCalls + Len(transactions) + 1,
            total_amount |-> totalAmount,
            payment_method |-> "cash",
            payment_amount |-> totalAmount,
            change_amount |-> 0,
            status |-> status,
            created_at |-> createdAt])
    /\ UNCHANGED <<products, transaction_items, stock_movements, calls, requests,
                   response, initial_stock, edits, reporting, checkout>>

\* time passes on the server
tick(now) ==
    /\ Gte(now, clock) /\ now # clock
    /\ Len(reports) < MaxReports
    /\ clock' = now
    /\ UNCHANGED <<tables, calls, requests, response, initial_stock, edits,
                   reports, checkout>>

NextReport ==
    \/ \E totalAmount \in Prices, createdAt \in Dates, status \in TransactionStatuses :
          createTestTransaction(totalAmount, createdAt, status)
    \/ \E now \in Dates : tick(now)
    \/ \E input \in SalesReportInputs : getSalesReport(input)

SpecReport == Init /\ [][NextReport]_vars

----------------------------------------------------------------------------
(* Checkout page (TransactionPage.tsx): the cart and the payment form *)

\* the articles of the shop whose checkout page is followed: on sale, in
\* stock or sold out
ShelfProductInputs ==
    {in \in [name : ProductNames, barcode : {NULL}, price : Prices,
             stock_quantity : {0, 1, MaxStock}, is_active : {TRUE}] :
        in.name = "Kopi" <=> in.price = 100}

Min(a, b) == IF a <= b THEN a ELSE b

\* lines 40-47: getProducts, then the active rows become the products state
loadProducts ==
    /\ loaded' = Filter(products, LAMBDA product : product.is_active)
    /\ UNCHANGED <<tables, calls, requests, response, initial_stock, edits, reporting,
                   cart, paymentMethod, paymentAmount, isLoading, transactionData, alert>>

\* the position in the cart of the item for a product id, 0 if there is none
CartIndex(items, productId) ==
    IF \E k \in 1..Len(items) : items[k].product.id = productId
    THEN CHOOSE k \in 1..Len(items) :
             /\ items[k].product.id = productId
             /\ \A j \in 1..(k - 1) : items[j].product.id # productId
    ELSE 0

\* lines 70-87
addToCart(product) ==
    /\ LET existing == CartIndex(cart, product.id)
       IN  IF existing # 0
           THEN IF cart[existing].quantity < product.stock_quantity
                THEN /\ cart' = [cart EXCEPT ![existing].quantity = @ + 1]
                     /\ alert' = alert
                ELSE /\ cart' = cart
                     /\ alert' = "Stok tidak mencukupi"
           ELSE /\ cart' = Append(cart, [product |-> product, quantity |-> 1])
                /\ alert' = alert
    /\ UNCHANGED <<tables, calls, requests, response, initial_stock, edits, reporting,
                   loaded, paymentMethod, paymentAmount, isLoading, transactionData>>

\* lines 107-109
RemovedFromCart(items, productId) ==
    Filter(items, LAMBDA item : item.product.id # productId)

removeFromCart(productId) ==
    /\ cart' = RemovedFromCart(cart, productId)
    /\ UNCHANGED <<tables, calls, requests, response, initial_stock, edits, reporting,
                   loaded, paymentMethod, paymentAmount, isLoading, transactionData,
                   alert>>

\* lines 89-105
updateQuantity(productId, newQuantity) ==
    /\ IF newQuantity <= 0
       THEN cart' = RemovedFromCart(cart, productId)
       ELSE cart' = Map(cart, LAMBDA item :
                        IF item.product.id = productId
                        THEN [item EXCEPT !.quantity =
                                  Min(newQuantity, item.product.stock_quantity)]
                        ELSE item)
    /\ UNCHANGED <<tables, calls, requests, response, initial_stock, edits, reporting,
                   loaded, paymentMethod, paymentAmount, isLoading, transactionData,
                   alert>>

\* the payment form's two fields
setPaymentMethod(value) ==
    /\ paymentMethod' = value
    /\ UNCHANGED <<tables, calls, requests, response, initial_stock, edits, reporting,
                   loaded, cart, paymentAmount, isLoading, transactionData, alert>>

setPaymentAmount(value) ==
    /\ paymentAmount' = value
    /\ UNCHANGED <<tables, calls, requests, response, initial_stock, edits, reporting,
                   loaded, cart, paymentMethod, isLoading, transactionData, alert>>

\* lines 111-113
calculateTotal(items) ==
    SeqSum(Map(items, LAMBDA item : item.product.price * item.quantity))

\* lines 210-232: the checks of the form, then the request is sent
handleTransaction ==
    /\ IF cart = <<>>
       THEN /\ alert' = "Keranjang kosong"
            /\ UNCHANGED <<isLoading, transactionData>>
       ELSE IF paymentMethod = "cash" /\ paymentAmount < calculateTotal(cart)
       THEN /\ alert' = "Jumlah pembayaran tidak mencukupi"
            /\ UNCHANGED <<isLoading, transactionData>>
       ELSE /\ isLoading' = TRUE
            /\ transactionData' =
                  [items |-> Map(cart, LAMBDA item :
                                 [product_id |-> item.product.id,
                                  quantity |-> item.quantity]),
                   payment_method |-> paymentMethod,
                   payment_amount |-> IF paymentMethod = "cash"
                                      THEN paymentAmount
                                      ELSE calculateTotal(cart)]
            /\ alert' = alert
    /\ UNCHANGED <<tables, calls, requests, response, initial_stock, edits, reporting,
                   loaded, cart, paymentMethod, paymentAmount>>

\* createTransactionInputSchema: quantities and the payment are positive
\* and there is at least one line
ParsesAsTransactionInput(input) ==
    /\ Len(input.items) >= 1
    /\ \A k \in 1..Len(input.items) : input.items[k].quantity > 0
    /\ input.payment_amount > 0

\* lines 244-250: the request was refused by the router's input schema;
\* the page reports the failure
handleTransactionRefused ==
    /\ isLoading
    /\ calls[1].pc = "idle"
    /\ ~ParsesAsTransactionInput(transactionData)
    /\ isLoading' = FALSE
    /\ alert' = "Gagal membuat transaksi"
    /\ UNCHANGED <<tables, calls, requests, response, initial_stock, edits, reporting,
                   loaded, cart, paymentMethod, paymentAmount, transactionData>>

\* lines 234-250: the awaited createTransaction has returned or thrown
handleTransactionSettled ==
    /\ isLoading
    /\ Finished(1)
    /\ isLoading' = FALSE
    /\ IF calls[1].pc = "done"
       THEN /\ cart' = <<>>
            /\ paymentAmount' = 0
            /\ loaded' = Filter(products, LAMBDA product : product.is_active)
            /\ alert' = "Transaksi berhasil"
       ELSE /\ alert' = "Gagal membuat transaksi"
            /\ UNCHANGED <<cart, paymentAmount, loaded>>
    /\ UNCHANGED <<tables, calls, requests, response, initial_stock, edits, reporting,
                   paymentMethod, transactionData>>

\* the quantities a caller may pass to updateQuantity
CartQuantities == 0..(MaxStock + 1)

\* the cart of one checkout page, while articles are entered
NextCart ==
    \/ \E input \in ShelfProductInputs : createProduct(input)
    \/ loadProducts
    \/ \E k \in 1..Len(loaded) : addToCart(loaded[k])
    \/ \E k \in 1..Len(cart), newQuantity \in CartQuantities :
          updateQuantity(cart[k].product.id, newQuantity)
    \/ \E k \in 1..Len(cart) : removeFromCart(cart[k].product.id)

SpecCart == Init /\ [][NextCart]_vars

\* the shop of the payment form sells one article, tea
TeaInputs == {in \in ShelfProductInputs : in.name = "Teh"}

\* the amounts the cashier types
TypedAmounts == PaymentAmounts

\* the requests of another client of the API: one line, any payment
SingleLineInputs == {in \in CreateTransactionInputs : Len(in.items) = 1}

\* one checkout page with its plus and minus buttons, and one sale, by the
\* page or by another client of the API
NextCheckout ==
    \/ products = <<>> /\ \E input \in TeaInputs : createProduct(input)
    \/ loadProducts
    \/ \E k \in 1..Len(loaded) : addToCart(loaded[k])
    \/ \E k \in 1..Len(cart), step \in {-1, 1} :
          updateQuantity(cart[k].product.id, cart[k].quantity + step)
    \/ \E value \in PaymentMethods : setPaymentMethod(value)
    \/ \E value \in TypedAmounts : setPaymentAmount(value)
    \/ ~isLoading /\ cart # <<>> /\ calls[1].pc = "idle" /\ handleTransaction
    \/ handleTransactionRefused
    \/ /\ isLoading
       /\ ParsesAsTransactionInput(transactionData)
       /\ createTransactionBegin(1, transactionData, 1)
    \/ ~isLoading /\ \E input \in SingleLineInputs : createTransactionBegin(1, input, 1)
    \/ insertTransaction(1)
    \/ insertTransactionItems(1)
    \/ updateProductStock(1)
    \/ insertStockMovements(1)
    \/ handleTransactionSettled

SpecCheckout == Init /\ [][NextCheckout]_vars

----------------------------------------------------------------------------
(* What the tables say about a product, a sale or a request *)

\* signed sum of the quantities of the movement rows of product p
MovementSum(p) ==
    SeqSum(Map(Filter(stock_movements, LAMBDA m : m.product_id = p),
               LAMBDA m : m.quantity))

\* the line items of transaction t
ItemsOf(t) == Filter(transaction_items, LAMBDA item : item.transaction_id = t)

\* the movement rows that refer to transaction t
MovementsOf(t) ==
    Filter(stock_movements,
           LAMBDA m : m.reference_type = "transaction" /\ m.reference_id = t)

\* summed quantity an order asks of product p
Demand(items, p) ==
    SeqSum(Map(Filter(items, LAMBDA item : item.product_id = p),
               LAMBDA item : item.quantity))

\* the order names some product in more than one line
HasDuplicateLines(items) ==
    \E j, k \in 1..Len(items) : j < k /\ items[j].product_id = items[k].product_id

\* every line of the order names a product that the request read as active
ReadActive(c) ==
    \A k \in 1..Len(calls[c].items) :
        \E r \in 1..Len(calls[c].requestedProducts) :
            /\ calls[c].requestedProducts[r].id = calls[c].items[k].product_id
            /\ calls[c].requestedProducts[r].is_active

\* the stock of product p as request c read it (the request read p)
ReadStock(c, p) ==
    Head(Filter(calls[c].requestedProducts, LAMBDA r : r.id = p)).stock_quantity

\* request c has written nothing: no transaction row, line item, movement
\* row or stock update is its own
WroteNothing(c) ==
    /\ calls[c].transaction_id \notin 1..Len(transactions)
    /\ ItemsOf(calls[c].transaction_id) = <<>>
    /\ MovementsOf(calls[c].transaction_id) = <<>>
    /\ calls[c].i <= 1

Quiescent == \A c \in Calls : ~InFlight(c)

----------------------------------------------------------------------------
(* C1: after any sequence or interleaving of adjustStock and               *)
(* createTransaction calls every stock_quantity is >= 0, and a sale that   *)
(* would make a product's stock negative is rejected: no sale writes the   *)
(* stock of a line whose quantity exceeds the stock the product then has   *)
(* (stated for the behaviours in which only sales have touched the stock). *)
C1_StockNeverNegativeOversellRejected ==
    /\ [](\A p \in 1..Len(products) : products[p].stock_quantity >= 0)
    /\ [][\A c \in Calls :
            (edits = 0 /\ calls[c].pc = "updateStock" /\ calls'[c].i = calls[c].i + 1) =>
                products[calls[c].items[calls[c].i].product_id].stock_quantity
                    >= calls[c].items[calls[c].i].quantity]_vars

\* the part of C1 that the code keeps: no stock_quantity is ever negative
StockNonNegative ==
    \A p \in 1..Len(products) : products[p].stock_quantity >= 0

(* C2: ledger reconciliation: whenever no sale is in flight, for every     *)
(* product the stock it was created with plus the signed sum of its        *)
(* movement rows equals its current stock_quantity.                        *)
C2_LedgerReconciles ==
    Quiescent =>
        \A p \in 1..Len(products) :
            initial_stock[p] + MovementSum(p) = products[p].stock_quantity

(* C3: two sales that overlap, each of one line for the same product,      *)
(* each within the stock but together above it, nothing else touching the  *)
(* stock: exactly one succeeds, the other fails with InsufficientStock,    *)
(* and the stock falls by the quantity of the successful sale only.        *)
C3_ExactlyOneOversellingSaleSucceeds ==
    \A c1, c2 \in Calls :
        ( /\ c1 # c2
          /\ Finished(c1) /\ Finished(c2)
          /\ c1 \in calls[c2].overlap
          /\ edits = 0
          /\ Len(calls[c1].items) = 1 /\ Len(calls[c2].items) = 1
          /\ calls[c1].items[1].product_id = calls[c2].items[1].product_id
          /\ Len(calls[c1].requestedProducts) = 1
          /\ Len(calls[c2].requestedProducts) = 1
          /\ calls[c1].error # "UniqueViolation" /\ calls[c2].error # "UniqueViolation"
          /\ LET s == calls[c1].requestedProducts[1].stock_quantity
             IN  /\ calls[c1].items[1].quantity <= s
                 /\ calls[c2].items[1].quantity <= s
                 /\ calls[c1].items[1].quantity + calls[c2].items[1].quantity > s )
        => \E w \in {c1, c2} : \E l \in {c1, c2} \ {w} :
              /\ calls[w].error = "none"
              /\ calls[l].error = "InsufficientStock"
              /\ products[calls[w].items[1].product_id].stock_quantity =
                     calls[c1].requestedProducts[1].stock_quantity
                         - calls[w].items[1].quantity

(* C4: a storage write that fails part-way through createTransaction       *)
(* leaves none of the call's writes: no transaction row, no line items,    *)
(* no stock change and no movement rows.                                   *)
C4_FailedSaleLeavesNothing ==
    \A c \in Calls : calls[c].error = "StorageError" => WroteNothing(c)

(* C5: a createTransaction that fails at a validation step writes no row   *)
(* to transactions, transaction_items or stock_movements and changes no    *)
(* product: the step that throws the validation error is the request's     *)
(* first, it changes no table, and the request takes no step after it.     *)
C5_ValidationFailureWritesNothing ==
    [][\A c \in Calls :
          /\ (calls'[c].error \in ValidationErrors /\ calls'[c] # calls[c]) =>
                /\ calls[c].pc = "idle"
                /\ calls'[c].pc = "failed"
                /\ tables' = tables
          /\ calls[c].error \in ValidationErrors => calls'[c] = calls[c]]_vars

\* a sale of two articles was refused for lack of stock
C5_Witness ==
    \E c \in Calls :
        /\ calls[c].pc = "failed" /\ calls[c].error = "InsufficientStock"
        /\ Len(calls[c].items) = 2
        /\ tables = <<products, <<>>, <<>>, <<>>>>

(* C6: an order with several lines for one product whose summed quantity   *)
(* exceeds the stock, each line alone within it, fails with                *)
(* InsufficientStock and writes nothing.                                   *)
C6_DuplicateLinesOverStockInsufficient ==
    \A c \in Calls :
        ( /\ Finished(c)
          /\ calls[c].error # "StorageError"
          /\ HasDuplicateLines(calls[c].items)
          /\ ReadActive(c)
          /\ \A k \in 1..Len(calls[c].items) :
                calls[c].items[k].quantity
                    <= ReadStock(c, calls[c].items[k].product_id)
          /\ \E k \in 1..Len(calls[c].items) :
                Demand(calls[c].items, calls[c].items[k].product_id)
                    > ReadStock(c, calls[c].items[k].product_id) )
        => calls[c].error = "InsufficientStock" /\ WroteNothing(c)

(* C7: an order with several lines for one product whose summed quantity   *)
(* is within the stock succeeds: one line item and one movement row per    *)
(* line, and the stock falls by the summed quantity.                       *)
C7_DuplicateLinesWithinStockSucceed ==
    \A c \in Calls :
        ( /\ Finished(c)
          /\ calls[c].error # "StorageError"
          /\ edits = 0
          /\ HasDuplicateLines(calls[c].items)
          /\ ReadActive(c)
          /\ \A k \in 1..Len(calls[c].items) :
                Demand(calls[c].items, calls[c].items[k].product_id)
                    <= ReadStock(c, calls[c].items[k].product_id) )
        => /\ calls[c].error = "none"
           /\ Len(ItemsOf(calls[c].transaction_id)) = Len(calls[c].items)
           /\ Len(MovementsOf(calls[c].transaction_id)) = Len(calls[c].items)
           /\ \A k \in 1..Len(calls[c].items) :
                 LET p == calls[c].items[k].product_id
                 IN  products[p].stock_quantity =
                         ReadStock(c, p) - Demand(calls[c].items, p)

(* C8: whenever no sale is in flight, every transaction row's total_amount *)
(* is the sum of total_price over its line items, and every line item's    *)
(* total_price is its unit_price times its quantity.                       *)
C8_TotalIsSumOfLineItems ==
    Quiescent =>
        /\ \A t \in 1..Len(transactions) :
              transactions[t].total_amount =
                  SeqSum(Map(ItemsOf(t), LAMBDA item : item.total_price))
        /\ \A k \in 1..Len(transaction_items) :
              transaction_items[k].total_price =
                  transaction_items[k].unit_price * transaction_items[k].quantity

(* C9: every transaction row's change_amount is payment_amount minus       *)
(* total_amount when the payment exceeds the total, and 0 otherwise.       *)
C9_ChangeIsClampedDifference ==
    \A t \in 1..Len(transactions) :
        IF transactions[t].payment_amount > transactions[t].total_amount
        THEN transactions[t].change_amount =
                 transactions[t].payment_amount - transactions[t].total_amount
        ELSE transactions[t].change_amount = 0

\* a cash sale paid with more than its total is stored with its change
C9_Witness ==
    \E t \in 1..Len(transactions) :
        /\ transactions[t].payment_method = "cash"
        /\ transactions[t].payment_amount > transactions[t].total_amount
        /\ transactions[t].change_amount > 0

(* C10 as stated: every transaction row whose payment_method is not cash   *)
(* has change_amount 0, whatever payment_amount the caller passed.         *)
C10_NonCashChangeZero ==
    \A t \in 1..Len(transactions) :
        transactions[t].payment_method # "cash" => transactions[t].change_amount = 0

(* C10 amended: a transaction row whose payment_method is not cash has     *)
(* change_amount 0 when the caller passed a payment_amount that does not   *)
(* exceed the total (the checkout form passes the total itself); a larger  *)
(* payment_amount is stored with change_amount = payment_amount - total,   *)
(* as for cash.                                                            *)
C10_NonCashChangeFollowsPayment ==
    \A t \in 1..Len(transactions) :
        transactions[t].payment_method # "cash" =>
            /\ transactions[t].payment_amount <= transactions[t].total_amount
                   => transactions[t].change_amount = 0
            /\ transactions[t].payment_amount > transactions[t].total_amount
                   => transactions[t].change_amount =
                          transactions[t].payment_amount - transactions[t].total_amount

\* a transfer of exactly the total is stored with no change
C10_Witness ==
    \E t \in 1..Len(transactions) :
        /\ transactions[t].payment_method = "transfer"
        /\ transactions[t].payment_amount = transactions[t].total_amount
        /\ transactions[t].change_amount = 0

(* C11: a successful createTransaction, for each line of its order, lowers  *)
(* the stock_quantity of the line's product by the line's quantity and     *)
(* changes no other product; and it appends exactly one movement row per   *)
(* line, with movement_type out, quantity -(line quantity), reference_type *)
(* transaction, reference_id the id of the new transaction and notes that  *)
(* carry the transaction number (the stock part is stated for the         *)
(* behaviours in which only sales have touched the stock).                 *)
C11_SaleLowersStockAndLogsEachLine ==
    [][\A c \in Calls :
          /\ (edits = 0 /\ calls[c].pc = "updateStock"
                         /\ calls'[c].i = calls[c].i + 1) =>
                LET item == calls[c].items[calls[c].i]
                IN  products' = [products EXCEPT ![item.product_id].stock_quantity =
                                    @ - item.quantity]
          /\ (calls[c].pc = "insertMovements" /\ calls'[c].pc = "done") =>
                /\ Len(stock_movements') = Len(stock_movements) + Len(calls[c].items)
                /\ SubSeq(stock_movements', 1, Len(stock_movements)) = stock_movements
                /\ \A k \in 1..Len(calls[c].items) :
                      LET m == stock_movements'[Len(stock_movements) + k]
                      IN  /\ m.product_id = calls[c].items[k].product_id
                          /\ m.movement_type = "out"
                          /\ m.quantity = 0 - calls[c].items[k].quantity
                          /\ m.reference_type = "transaction"
                          /\ m.reference_id = calls[c].transaction_id
                          /\ m.notes.number =
                                 transactions[calls[c].transaction_id].transaction_number]_vars

\* the step is an adjustStock call (every call takes the next call number)
AdjustStockReturns == response'.call # response.call

C16_LedgerAppendOnly ==
    [][/\ Len(stock_movements') >= Len(stock_movements)
       /\ SubSeq(stock_movements', 1, Len(stock_movements)) = stock_movements]_vars

\* a product with a sale and a recount in the ledger has been delisted
C16_Witness ==
    \E p \in 1..Len(products) :
        /\ ~products[p].is_active
        /\ \E r \in Requests :
              requests[r].pc = "done" /\ requests[r].op = "deleteProduct"
                                     /\ requests[r].input = <<p>>
        /\ \E j, k \in 1..Len(stock_movements) :
              /\ stock_movements[j].product_id = p
              /\ stock_movements[j].movement_type = "out"
              /\ stock_movements[k].product_id = p
              /\ stock_movements[k].movement_type = "adjustment"

(* C17: line items are immutable snapshots: no step taken after a line     *)
(* item is stored (an updateProduct that changes the product's name or     *)
(* price and a deleteProduct among them) changes the item's product_name,  *)
(* unit_price, quantity or total_price, or the total_amount of its         *)
(* transaction.                                                            *)
C17_LineItemsAreSnapshots ==
    [][/\ Len(transaction_items') >= Len(transaction_items)
       /\ SubSeq(transaction_items', 1, Len(transaction_items)) = transaction_items
       /\ Len(transactions') >= Len(transactions)
       /\ \A t \in 1..Len(transactions) :
             transactions'[t].total_amount = transactions[t].total_amount]_vars

\* a sold article has since been repriced: the line item keeps the old
\* price and the transaction its total
C17_Witness ==
    \E k \in 1..Len(transaction_items) :
        LET item == transaction_items[k]
        IN  /\ calls[1].pc = "done"
            /\ edits > 0
            /\ products[item.product_id].price # item.unit_price
            /\ item.total_price = item.unit_price * item.quantity
            /\ transactions[item.transaction_id].total_amount = item.total_price

(* C18: in every reachable state no two products, active or not, have the  *)
(* same non-null barcode, whatever the sequence or interleaving of         *)
(* createProduct and updateProduct calls (stated here for the barcodes     *)
(* that are not empty, the ones both handlers look up).                    *)
C18_BarcodesUnique ==
    \A p, q \in 1..Len(products) :
        (p # q /\ Truthy(products[p].barcode)) =>
            products[p].barcode # products[q].barcode

\* C18 for every non-null barcode, the empty string included
BarcodesUniqueNonNull ==
    \A p, q \in 1..Len(products) :
        (p # q /\ products[p].barcode # NULL) =>
            products[p].barcode # products[q].barcode

\* request r takes its first step, as a deleteProduct
DeleteProductStarts(r) ==
    requests[r].pc = "idle" /\ requests'[r].op = "deleteProduct"

\* product id has a line item in a transaction of the status
ReferencedWithStatus(id, status) ==
    \E k \in 1..Len(transaction_items) :
        /\ transaction_items[k].product_id = id
        /\ transactions[transaction_items[k].transaction_id].status = status

(* C19: a deleteProduct of a product that a line item of a pending         *)
(* transaction refers to fails with an error and leaves the product as it  *)
(* is (is_active stays true): the request writes nothing and takes no      *)
(* further step. References from completed or cancelled transactions do    *)
(* not block: without a pending reference the request goes on to the soft  *)
(* delete.                                                                 *)
C19_PendingReferenceBlocksDelete ==
    [][\A r \in Requests :
          /\ DeleteProductStarts(r) =>
                LET id == requests'[r].input[1]
                IN  id \in 1..Len(products) =>
                        IF ReferencedWithStatus(id, "pending")
                        THEN /\ requests'[r].pc = "failed"
                             /\ requests'[r].error = "ReferencedByPending"
                             /\ products' = products
                        ELSE /\ requests'[r].pc = "deleteProduct"
                             /\ requests'[r].error = "none"
          /\ requests[r].pc = "failed" => requests'[r] = requests[r]
          /\ (requests[r].pc = "deleteProduct" /\ requests'[r] # requests[r]) =>
                /\ requests'[r].pc = "done"
                /\ ~products'[requests[r].input[1]].is_active]_vars

\* a delete was refused for a pending sale of the product, which is still
\* on sale
C19_Witness ==
    \E r \in Requests :
        /\ requests[r].op = "deleteProduct"
        /\ requests[r].pc = "failed"
        /\ requests[r].error = "ReferencedByPending"
        /\ ReferencedWithStatus(requests[r].input[1], "pending")
        /\ products[requests[r].input[1]].is_active

\* a product sold in a cancelled transaction has been delisted
DeletedDespiteCancelledSale ==
    \E r \in Requests :
        /\ requests[r].op = "deleteProduct" /\ requests[r].pc = "done"
        /\ ReferencedWithStatus(requests[r].input[1], "cancelled")
        /\ ~products[requests[r].input[1]].is_active

(* C20: products are never hard-deleted: a successful deleteProduct only   *)
(* sets is_active to false and returns true, the row and its other fields  *)
(* remain; and no step of any operation removes a product row: every       *)
(* product ever created still exists under its id.                         *)
C20_ProductsNeverRemoved ==
    [][/\ Len(products') >= Len(products)
       /\ \A p \in 1..Len(products) : products'[p].id = products[p].id
       /\ \A r \in Requests :
             (requests[r].pc = "deleteProduct" /\ requests'[r].pc = "done") =>
                 /\ products' = [products EXCEPT
                                    ![requests[r].input[1]].is_active = FALSE]
                 /\ requests'[r].result = <<TRUE>>]_vars

\* an active product with a barcode was delisted; its row and the other
\* product are still there
C20_Witness ==
    \E r \in Requests :
        /\ requests[r].op = "deleteProduct" /\ requests[r].pc = "done"
        /\ requests[r].result = <<TRUE>>
        /\ Len(products) = 2
        /\ LET p == products[requests[r].input[1]]
           IN  ~p.is_active /\ Truthy(p.barcode) /\ p.stock_quantity = MaxStock

(* C21: any two persisted transactions have different transaction_number  *)
(* values, whatever the sequence or interleaving of createTransaction      *)
(* calls, two calls that draw the same number included.                    *)
C21_TransactionNumbersDiffer ==
    \A t, u \in 1..Len(transactions) :
        t # u => transactions[t].transaction_number # transactions[u].transaction_number

\* two calls drew the same number: one is stored, the insert of the other
\* was refused
C21_Witness ==
    \E c, d \in Calls :
        /\ c # d
        /\ calls[c].pc = "failed" /\ calls[c].error = "UniqueViolation"
        /\ calls[d].pc = "done"
        /\ Len(transactions) = 1

\* request c takes its first step: it reads the catalog and validates
SaleStarts(c) == calls[c].pc = "idle" /\ calls'[c].pc # "idle"

\* the order names a product that is in the catalog and not active
NamesInactive(items) ==
    \E k \in 1..Len(items) :
        /\ items[k].product_id \in 1..Len(products)
        /\ ~products[items[k].product_id].is_active

\* no earlier check fails: every product of the order is in the catalog,
\* none is named twice, and every line before the first inactive one is
\* within the stock
InactiveLineDecides(items) ==
    /\ \A k \in 1..Len(items) : items[k].product_id \in 1..Len(products)
    /\ ~HasDuplicateLines(items)
    /\ \E j \in 1..Len(items) :
          /\ ~products[items[j].product_id].is_active
          /\ \A k \in 1..(j - 1) :
                /\ products[items[k].product_id].is_active
                /\ products[items[k].product_id].stock_quantity >= items[k].quantity

C23_SaleWritesAtomic ==
    \A t \in 1..Len(transactions) :
        /\ Len(ItemsOf(t)) > 0
        /\ Len(MovementsOf(t)) = Len(ItemsOf(t))
        /\ \A c \in Calls :
              calls[c].transaction_id = t => calls[c].pc \in {"insertMovements", "done"}

(* C24: when both start_date and end_date are given, the report window is *)
(* exactly those two instants, whatever the period: nothing is snapped to  *)
(* a day, a week or a month.                                               *)
C24_BothDatesVerbatim ==
    \A i \in 1..Len(reports) :
        (Given(reports[i].input, "start_date") /\ Given(reports[i].input, "end_date")) =>
            /\ reports[i].report.start_date = reports[i].input.start_date
            /\ reports[i].report.end_date = reports[i].input.end_date

\* a weekly report from Thursday 1 February 10:00 to Thursday 29 February
\* 23:59:59.999 was returned with those bounds
C24_Witness ==
    \E i \in 1..Len(reports) :
        /\ reports[i].input = [period |-> "weekly",
                               start_date |-> Instants[4], end_date |-> Instants[6]]
        /\ reports[i].report.start_date = [day |-> 62, ms |-> 36000000]
        /\ reports[i].report.end_date = [day |-> 90, ms |-> 86399999]

\* the reports asked with an end_date and no start_date
EndDateOnlyReports ==
    {i \in 1..Len(reports) :
        Given(reports[i].input, "end_date") /\ ~Given(reports[i].input, "start_date")}

(* C25: when only end_date is given, a daily report runs from 00:00:00.000 *)
(* to 23:59:59.999 of end_date's calendar day; a weekly report runs from   *)
(* 00:00:00.000 of the Monday of the week containing end_date (six days    *)
(* back from a Sunday, dayOfWeek - 1 days back otherwise) to end_date      *)
(* itself; a monthly report runs from 00:00:00.000 of the first day of     *)
(* end_date's month to end_date itself.                                    *)
C25_EndDateOnlyWindow ==
    \A i \in EndDateOnlyReports :
        LET end_date == reports[i].input.end_date
            period == reports[i].input.period
            window == reports[i].report
        IN  /\ period = "daily" =>
                  /\ window.start_date = [day |-> end_date.day, ms |-> 0]
                  /\ window.end_date = [day |-> end_date.day, ms |-> 86399999]
            /\ period = "weekly" =>
                  /\ window.start_date =
                        [day |-> end_date.day - ((getDay(end_date) + 6) % 7), ms |-> 0]
                  /\ getDay(window.start_date) = 1
                  /\ window.end_date = end_date
            /\ period = "monthly" =>
                  /\ window.start_date.ms = 0
                  /\ getDate(window.start_date) = 1
                  /\ getMonth(window.start_date) = getMonth(end_date)
                  /\ getFullYear(window.start_date) = getFullYear(end_date)
                  /\ window.end_date = end_date

\* a weekly report up to Sunday 31 December 2023 10:00 started on Monday
\* 25 December 00:00:00.000 and ended at the end_date
C25_Witness ==
    \E i \in EndDateOnlyReports :
        /\ reports[i].input = [period |-> "weekly", end_date |-> Instants[1]]
        /\ reports[i].report.start_date = [day |-> 24, ms |-> 0]
        /\ reports[i].report.end_date = [day |-> 30, ms |-> 36000000]

\* the reports asked without start_date and without end_date
NoDateReports ==
    {i \in 1..Len(reports) :
        ~Given(reports[i].input, "end_date") /\ ~Given(reports[i].input, "start_date")}

\* the window of a daily or a weekly report asked without dates, at the
\* instant now: the whole day; Monday 00:00:00.000 to Sunday 23:59:59.999
WholeDayOrWeek(period, now, window) ==
    /\ period = "daily" =>
          /\ window.start_date = [day |-> now.day, ms |-> 0]
          /\ window.end_date = [day |-> now.day, ms |-> 86399999]
    /\ period = "weekly" =>
          /\ window.start_date = [day |-> now.day - ((getDay(now) + 6) % 7), ms |-> 0]
          /\ getDay(window.start_date) = 1
          /\ window.end_date = [day |-> window.start_date.day + 6, ms |-> 86399999]
          /\ getDay(window.end_date) = 0

\* the window starts with the month of now
StartsWithMonthOf(now, window) ==
    /\ window.start_date.ms = 0
    /\ getDate(window.start_date) = 1
    /\ getMonth(window.start_date) = getMonth(now)
    /\ getFullYear(window.start_date) = getFullYear(now)

(* C26 as stated: when neither date is given the window follows the rules  *)
(* of the end_date-only case with the current instant as anchor (daily:    *)
(* the whole current day; monthly: first day of the current month          *)
(* 00:00:00.000 to the current instant itself), except that a weekly       *)
(* report runs from Monday 00:00:00.000 to Sunday 23:59:59.999 of the      *)
(* current week.                                                           *)
C26_NoDatesMonthEndsNow ==
    \A i \in NoDateReports :
        /\ WholeDayOrWeek(reports[i].input.period, reports[i].now, reports[i].report)
        /\ reports[i].input.period = "monthly" =>
              /\ StartsWithMonthOf(reports[i].now, reports[i].report)
              /\ reports[i].report.end_date = reports[i].now

(* C26 amended: when neither date is given the window is the whole current *)
(* period: a daily report runs from 00:00:00.000 to 23:59:59.999 of the    *)
(* current day, a weekly report from Monday 00:00:00.000 to Sunday         *)
(* 23:59:59.999 of the current week, and a monthly report from the first   *)
(* day of the current month 00:00:00.000 to 23:59:59.999 of its last day.  *)
C26_NoDatesWholePeriod ==
    \A i \in NoDateReports :
        /\ WholeDayOrWeek(reports[i].input.period, reports[i].now, reports[i].report)
        /\ reports[i].input.period = "monthly" =>
              /\ StartsWithMonthOf(reports[i].now, reports[i].report)
              /\ reports[i].report.end_date.ms = 86399999
              /\ getMonth(reports[i].report.end_date) = getMonth(reports[i].now)
              /\ getFullYear(reports[i].report.end_date) = getFullYear(reports[i].now)
              /\ getDate([day |-> reports[i].report.end_date.day + 1, ms |-> 0]) = 1

\* a monthly report asked on Thursday 1 February 2024 at 10:00 ran from
\* 1 February 00:00:00.000 to 29 February 23:59:59.999
C26_Witness ==
    \E i \in NoDateReports :
        /\ reports[i].input.period = "monthly"
        /\ reports[i].now = [day |-> 62, ms |-> 36000000]
        /\ reports[i].report.start_date = [day |-> 62, ms |-> 0]
        /\ reports[i].report.end_date = [day |-> 90, ms |-> 86399999]

\* the ids of the completed transactions, among those stored when report i
\* was asked, whose created_at lies in the window the report names, both
\* ends included
InWindow(i) ==
    {t \in 1..reports[i].stored :
        /\ transactions[t].status = "completed"
        /\ Gte(transactions[t].created_at, reports[i].report.start_date)
        /\ Lte(transactions[t].created_at, reports[i].report.end_date)}

\* the sum of total_amount over a set of transaction ids
RECURSIVE AmountOf(_)
AmountOf(ids) ==
    IF ids = {} THEN 0
    ELSE LET t == CHOOSE t \in ids : TRUE
         IN  transactions[t].total_amount + AmountOf(ids \ {t})

(* C27: getSalesReport aggregates exactly the transactions whose status is *)
(* completed and whose created_at lies in [start, end], both ends          *)
(* included: total_transactions is their count, total_sales the sum of     *)
(* their total_amount, and average_transaction is total_sales divided by   *)
(* total_transactions, or 0 when there is none.                            *)
C27_ReportAggregatesWindow ==
    \A i \in 1..Len(reports) :
        LET report == reports[i].report
        IN  /\ {report.transactions[k] : k \in 1..Len(report.transactions)}
                  = {transactions[t] : t \in InWindow(i)}
            /\ report.total_transactions = Cardinality(InWindow(i))
            /\ report.total_sales = AmountOf(InWindow(i))
            /\ report.average_transaction.numerator * report.total_transactions
                  = report.average_transaction.denominator * report.total_sales
            /\ report.total_transactions = 0 => report.average_transaction.numerator = 0
            /\ report.average_transaction.denominator > 0

\* a report whose window is the single instant Thursday 1 February 10:00
\* counted the completed sale of 100 stored at that instant and left out
\* the pending one of 250 stored at the same instant
C27_Witness ==
    \E i \in 1..Len(reports) :
        /\ reports[i].report.start_date = Instants[4]
        /\ reports[i].report.end_date = Instants[4]
        /\ reports[i].stored = 2
        /\ \E t, u \in 1..2 :
              /\ transactions[t].status = "completed"
              /\ transactions[t].total_amount = 100
              /\ transactions[t].created_at = Instants[4]
              /\ transactions[u].status = "pending"
              /\ transactions[u].total_amount = 250
              /\ transactions[u].created_at = Instants[4]
        /\ reports[i].report.total_transactions = 1
        /\ reports[i].report.total_sales = 100
        /\ reports[i].report.average_transaction = [numerator |-> 100, denominator |-> 1]

(* C28: every transaction stored by createTransaction has status          *)
(* completed and no operation of the API changes the status of a stored    *)
(* transaction; so after any sequence of API operations no transaction is  *)
(* pending, and no deleteProduct is refused because a pending transaction  *)
(* references the product.                                                 *)
C28_NoPendingTransaction ==
    /\ [](/\ \A t \in 1..Len(transactions) : transactions[t].status = "completed"
          /\ \A r \in Requests : requests[r].error # "ReferencedByPending")
    /\ [][/\ Len(transactions') >= Len(transactions)
          /\ \A t \in 1..Len(transactions) :
                transactions'[t].status = transactions[t].status]_vars

\* a product that a line of a stored sale names was delisted by
\* deleteProduct without objection
C28_Witness ==
    \E r \in Requests, k \in 1..Len(transaction_items) :
        /\ requests[r].op = "deleteProduct"
        /\ requests[r].pc = "done"
        /\ requests[r].error = "none"
        /\ transaction_items[k].product_id = requests[r].input[1]
        /\ transactions[transaction_items[k].transaction_id].status = "completed"
        /\ ~products[requests[r].input[1]].is_active

\* the catalog gives a reason to refuse the order: it is empty, names a
\* product twice, or has a line whose product is missing, not active or
\* short of stock
CatalogRefuses(items) ==
    \/ Len(items) = 0
    \/ HasDuplicateLines(items)
    \/ \E k \in 1..Len(items) :
          \/ items[k].product_id \notin 1..Len(products)
          \/ ~products[items[k].product_id].is_active
          \/ products[items[k].product_id].stock_quantity < items[k].quantity

\* the transaction row that request c has stored
RowOf(c) == transactions[calls[c].transaction_id]

(* C29: createTransaction does not check that the payment covers the       *)
(* total: an order is refused by the handler only for what the catalog     *)
(* says about its lines, whatever the payment method and amount; a sale    *)
(* paid below its total is stored as completed with change_amount 0 and    *)
(* lowers the stock as any sale does. Only the checkout form holds back an *)
(* insufficient cash payment: every request it sends pays at least the     *)
(* cart's total.                                                           *)
C29_PaymentNotCheckedByHandler ==
    /\ [][\A c \in Calls : SaleStarts(c) =>
             /\ calls'[c].pc = "failed" <=> CatalogRefuses(calls'[c].items)
             /\ calls'[c].pc # "failed" =>
                   /\ calls'[c].row[1].status = "completed"
                   /\ calls'[c].row[1].payment_amount < calls'[c].row[1].total_amount
                         => calls'[c].row[1].change_amount = 0]_vars
    /\ [](\A c \in Calls : calls[c].pc = "done" =>
             /\ RowOf(c).status = "completed"
             /\ RowOf(c).payment_amount < RowOf(c).total_amount
                   => RowOf(c).change_amount = 0
             /\ \A k \in 1..Len(calls[c].items) :
                   products[calls[c].items[k].product_id].stock_quantity
                       = initial_stock[calls[c].items[k].product_id]
                           - calls[c].items[k].quantity
             /\ Len(MovementsOf(calls[c].transaction_id)) = Len(calls[c].items))
    /\ [][(~isLoading /\ isLoading') =>
             transactionData'.payment_amount >= calculateTotal(cart)]_vars

\* a cash sale of one tea at 250 paid with 100 went through: the row is
\* completed with change 0, the stock went from 3 to 2 and the ledger has
\* the sale's row; the form, asked the same, answered with its alert
C29_Witness ==
    /\ calls[1].pc = "done"
    /\ RowOf(1).payment_method = "cash"
    /\ RowOf(1).payment_amount = 100
    /\ RowOf(1).total_amount = 250
    /\ transactions[1].status = "completed"
    /\ transactions[1].change_amount = 0
    /\ initial_stock[1] = MaxStock
    /\ products[1].stock_quantity = MaxStock - 1
    /\ Len(stock_movements) = 1
    /\ alert = "Jumlah pembayaran tidak mencukupi"

(* C30: in the checkout cart, after any sequence of addToCart,            *)
(* updateQuantity and removeFromCart, the quantity of every cart entry is  *)
(* at least 1 and at most the stock_quantity of its product as the page    *)
(* loaded it, also for a product that was loaded with stock 0.             *)
C30_CartWithinLoadedStock ==
    \A k \in 1..Len(cart) :
        /\ cart[k].quantity >= 1
        /\ cart[k].quantity <= cart[k].product.stock_quantity

====
